---- MODULE Spec2Model ----
(***************************************************************************)
(* Model of the LiveView component (realtime voice session) of the         *)
(* Trevelin front-end: src/unnamed/part_000, lines 148-289 and 319-365.    *)
(*                                                                         *)
(* Every call of startSession is an "attempt".  An attempt owns the two    *)
(* AudioContexts it constructs, the MediaStream getUserMedia gives it and  *)
(* the connection ai.live.connect opens for it.  The refs of the component *)
(* (audioContextRef, streamRef, ...) hold the number of the attempt whose  *)
(* object they point to, or Null.                                          *)
(*                                                                         *)
(* Every handler runs to completion (one UI thread); an `await` ends an    *)
(* action and its continuation is a separate action.  isActive, status and *)
(* error hold the argument of the last call of their setter.               *)
(***************************************************************************)
EXTENDS Naturals, Integers, Sequences, FiniteSets, TLC

\* ---------------------------------------------------------------- bounds
MaxStarts == 2      \* calls of startSession
MaxChunks == 3      \* inbound messages that carry audio
MaxIntr   == 1      \* inbound messages that carry only `interrupted`
MaxTime   == 2      \* ticks of the output clock
MaxDur    == 2      \* longest decoded chunk, in ticks
MaxOps    == 2      \* MediaStudio handler invocations in flight at once
MaxFrames == 2      \* captured audio frames (onaudioprocess events)
MaxSends  == 2      \* ChatView messages sent by the user

\* decoded durations of the inbound chunks, in ticks
Durations == 1..MaxDur

Attempts == 1..MaxStarts
Null     == 0

\* ------------------------------------------------------ program constants
ReadyStatus        == "Ready to connect"
InitializingStatus == "Initializing..."
ConnectedStatus    == "Connected"
DisconnectedStatus == "Disconnected"
NoError            == "null"
StartError         == "Failed to start session"
ConnectionError    == "Connection error occurred."

VARIABLES
  mounted,                \* the component is mounted
  isActive, status, error,                     \* React state
  audioContextRef, inputAudioContextRef,       \* refs: attempt or Null
  sessionPromiseRef, streamRef,
  nextStartTimeRef,                            \* the playback cursor
  sourcesRef,                                  \* set of scheduled sources
  pc,          \* attempt -> position of its startSession / connection
  opened,      \* attempts whose onopen ran (scriptProcessor installed)
  thens,       \* attempt -> callbacks waiting on its pending sessionPromise
  stopCalls,   \* attempt -> number of track.stop() calls on its stream
  closeIn,     \* attempt -> number of close() calls on its input context
  closeOut,    \* attempt -> number of close() calls on its output context
  clock,       \* attempt -> currentTime of its output context
  decoding,    \* onmessage handlers suspended at `await decodeAudioData`
               \* (seen: the interruptions handled before the chunk arrived)
  schedule,    \* log of source.start calls, in call order
  srcState,    \* chunk -> state of the source created for it
  sent,        \* log of sendRealtimeInput calls
  arrived,     \* number of audio messages handled so far
  nIntr,       \* number of interruption-only messages handled so far
  gap,         \* what moved the cursor since the last source.start:
               \* "none", "clamp" (a late chunk) or "reset"
  produced,    \* number of frames onaudioprocess has delivered
  queued,      \* attempt -> frames whose send waits on its pending promise
  sentLog,     \* log of sendRealtimeInput calls: frame and session, in order
  tab, isLoading, mediaStatus,     \* MediaStudio: tab, isLoading and status
  aistudio,    \* window.aistudio is present
  op,          \* slot -> a running MediaStudio handler and where it awaits
  messages, input,                 \* ChatView: the conversation, the text box
  chatIsLoading,                   \* ChatView: isLoading
  selectedMode,                    \* ChatView: the model of the select
  useThinking, useSearch, useMaps, \* ChatView: the three toggles
  send         \* the running ChatView.handleSend and where it awaits

liveVars == << mounted, isActive, status, error, audioContextRef,
               inputAudioContextRef, sessionPromiseRef, streamRef,
               nextStartTimeRef, sourcesRef, pc, opened, thens, stopCalls,
               closeIn, closeOut, clock, decoding, schedule, srcState, sent,
               arrived, nIntr, gap, produced, queued, sentLog >>

frameVars == << produced, queued, sentLog >>

studioVars == << tab, isLoading, mediaStatus, aistudio, op >>

chatVars == << messages, input, chatIsLoading, selectedMode, useThinking,
               useSearch, useMaps, send >>

vars == << liveVars, studioVars, chatVars >>

uiVars    == << mounted, isActive, status, error >>
refVars   == << audioContextRef, inputAudioContextRef, sessionPromiseRef,
                streamRef >>
resVars   == << stopCalls, closeIn, closeOut >>
audioVars == << nextStartTimeRef, sourcesRef, decoding, schedule, srcState,
                arrived, nIntr, gap >>

\* ------------------------------------------------------ derived resources
\* the attempt has constructed its two AudioContexts
HasContexts(a) == pc[a] # "unused"
\* getUserMedia has resolved for the attempt
HasStream(a) == pc[a] \notin {"unused", "mic", "denied"}
\* ai.live.connect has been called for the attempt
HasConnection(a) == HasStream(a)

MicLive(a)    == HasStream(a) /\ stopCalls[a] = 0
InCtxOpen(a)  == HasContexts(a) /\ closeIn[a] = 0
OutCtxOpen(a) == HasContexts(a) /\ closeOut[a] = 0
ConnLive(a)   == pc[a] \in {"connecting", "open", "closing"}

Max(x, y) == IF x >= y THEN x ELSE y

InitLive ==
  /\ mounted = TRUE
  /\ isActive = FALSE
  /\ status = ReadyStatus
  /\ error = NoError
  /\ audioContextRef = Null
  /\ inputAudioContextRef = Null
  /\ sessionPromiseRef = Null
  /\ streamRef = Null
  /\ nextStartTimeRef = 0
  /\ sourcesRef = {}
  /\ pc = [a \in Attempts |-> "unused"]
  /\ opened = {}
  /\ thens = [a \in Attempts |-> {}]
  /\ stopCalls = [a \in Attempts |-> 0]
  /\ closeIn = [a \in Attempts |-> 0]
  /\ closeOut = [a \in Attempts |-> 0]
  /\ clock = [a \in Attempts |-> 0]
  /\ decoding = << >>
  /\ schedule = << >>
  /\ srcState = [c \in 1..MaxChunks |-> "none"]
  /\ sent = {}
  /\ arrived = 0
  /\ nIntr = 0
  /\ gap = "none"
  /\ produced = 0
  /\ queued = [a \in Attempts |-> << >>]
  /\ sentLog = << >>

\* MediaStudio: the values of status
NoStatus         == ""
GeneratingImage  == "Generating Image..."
EditingImage     == "Editing Image..."
NoImageGenerated == "No image generated. Check prompt."
NoImageReturned  == "No image returned."
Animating        == "Animating (this takes minutes)..."
GeneratingVideo  == "Generating Video (this takes minutes)..."
Rendering        == "Rendering... "
Complete         == "Complete"
FailedVideo      == "Failed to generate video."
KeyReset         == "Key reset. Please try again."
ErrorStatus      == "Error: "

Tabs == {"GENERATE_IMG", "EDIT_IMG", "VEO_VIDEO", "ANIMATE_IMG"}
Ops  == 1..MaxOps

\* a handler invocation: which handler, the await it is suspended at, the
\* exception its catch block received, and operation.done
Running(kind, at, err, done) ==
  [kind |-> kind, at |-> at, err |-> err, done |-> done]

\* no invocation yet; the promise of the invocation fulfilled; it rejected
Free        == Running("none", "free", "none", FALSE)
Returned(e) == Running("none", "returned", e, FALSE)
Threw(e)    == Running("none", "threw", e, FALSE)

Settled == {"free", "returned", "threw"}

\* MediaStudio is not rendered (App renders one view at a time)
StudioUnmounted ==
  /\ tab = "GENERATE_IMG"
  /\ isLoading = FALSE
  /\ mediaStatus = NoStatus
  /\ aistudio = FALSE
  /\ op = [i \in Ops |-> Free]

\* ------------------------------------------------------- ChatView state
PRO        == "gemini-3-pro-preview"
FLASH      == "gemini-3-flash-preview"
FLASH_LITE == "gemini-2.5-flash-lite"
MAPS_MODEL == "gemini-2.5-flash"

\* the options of the model select
SelectModes == {PRO, FLASH, FLASH_LITE}

\* what the text box can hold: nothing, only blanks, a text
Inputs == {"", " ", "hi"}

\* String.prototype.trim on the texts of Inputs
Trim(s) == IF s = " " THEN "" ELSE s

\* no handleSend is running
Idle == [at |-> "idle", model |-> "none", tools |-> "none", isThinking |-> FALSE]

\* the useState initial values of ChatView
InitChat ==
  /\ messages = << >>
  /\ input = ""
  /\ chatIsLoading = FALSE
  /\ selectedMode = PRO
  /\ useThinking = FALSE
  /\ useSearch = FALSE
  /\ useMaps = FALSE
  /\ send = Idle

\* LiveView has just been mounted
Init == InitLive /\ StudioUnmounted /\ InitChat

\* ------------------------------------------------------------ startSession
\* startSession up to `await getUserMedia` (button shown while !isActive)
StartSession(a) ==
  /\ mounted /\ ~isActive
  /\ pc[a] = "unused"
  /\ \A b \in Attempts : b < a => pc[b] # "unused"
  /\ error' = NoError
  /\ status' = InitializingStatus
  /\ inputAudioContextRef' = a
  /\ audioContextRef' = a
  /\ nextStartTimeRef' = clock[a]
  /\ gap' = "reset"
  /\ pc' = [pc EXCEPT ![a] = "mic"]
  /\ UNCHANGED << mounted, isActive, sessionPromiseRef, streamRef, sourcesRef,
                  opened, thens, resVars, clock, decoding, schedule, srcState,
                  sent, arrived, nIntr >>
  /\ UNCHANGED << studioVars, chatVars >>
  /\ UNCHANGED frameVars

\* getUserMedia resolves: the stream is stored and ai.live.connect is called
MicGranted(a) ==
  /\ pc[a] = "mic"
  /\ streamRef' = a
  /\ sessionPromiseRef' = a
  /\ pc' = [pc EXCEPT ![a] = "connecting"]
  /\ UNCHANGED << uiVars, audioContextRef, inputAudioContextRef, opened,
                  thens, resVars, clock, audioVars, sent >>
  /\ UNCHANGED << studioVars, chatVars >>
  /\ UNCHANGED frameVars

\* the promise returned by ai.live.connect rejects: startSession did not await
\* it, so its catch block does not run, and the callbacks chained on it with
\* .then never run
ConnectRejected(a) ==
  /\ pc[a] = "connecting"
  /\ pc' = [pc EXCEPT ![a] = "rejected"]
  /\ thens' = [thens EXCEPT ![a] = {}]
  /\ queued' = [queued EXCEPT ![a] = << >>]
  /\ UNCHANGED << uiVars, refVars, opened, resVars, clock, audioVars, sent,
                  produced, sentLog >>
  /\ UNCHANGED << studioVars, chatVars >>

\* getUserMedia rejects: the catch block of startSession
MicDenied(a) ==
  /\ pc[a] = "mic"
  /\ error' = StartError
  /\ isActive' = FALSE
  /\ pc' = [pc EXCEPT ![a] = "denied"]
  /\ UNCHANGED << mounted, status, refVars, nextStartTimeRef, sourcesRef,
                  opened, thens, resVars, clock, decoding, schedule, srcState,
                  sent, arrived, nIntr, gap >>
  /\ UNCHANGED << studioVars, chatVars >>
  /\ UNCHANGED frameVars

\* state of the session a `.then` callback set finds once the promise resolves
PcAfterThens(cbs) == IF "close" \in cbs THEN "closing" ELSE "open"

\* the sends queued on the pending promise run when it resolves
SentAfterThens(cbs) == IF "send" \in cbs THEN sent \cup {"connecting"} ELSE sent

\* mutant of SendFrame: the frame is put before the frames already sent
SendFrameFirst(log, frame) == << frame >> \o log

\* session.sendRealtimeInput({ media: pcmBlob })
SendFrame(log, frame) == Append(log, frame)

\* the queued sends of a promise run in the order they were chained
RECURSIVE SendQueued(_, _, _)
SendQueued(log, q, a) ==
  IF q = << >> THEN log
  ELSE SendQueued(SendFrame(log, [f |-> Head(q), to |-> a]), Tail(q), a)

\* onopen, then the sessionPromise resolves and its queued callbacks run
OnOpen(a) ==
  /\ pc[a] = "connecting"
  /\ status' = ConnectedStatus
  /\ isActive' = TRUE
  /\ opened' = opened \cup {a}
  /\ pc' = [pc EXCEPT ![a] = PcAfterThens(thens[a])]
  /\ sent' = SentAfterThens(thens[a])
  /\ thens' = [thens EXCEPT ![a] = {}]
  /\ sentLog' = SendQueued(sentLog, queued[a], a)
  /\ queued' = [queued EXCEPT ![a] = << >>]
  /\ UNCHANGED << mounted, error, refVars, resVars, clock, audioVars,
                  produced >>
  /\ UNCHANGED << studioVars, chatVars >>

\* -------------------------------------------------------------- stopSession
\* session.close() is called through sessionPromiseRef.current.then
PcAfterStop(p) ==
  IF sessionPromiseRef # Null /\ p[sessionPromiseRef] = "open"
  THEN [p EXCEPT ![sessionPromiseRef] = "closing"]
  ELSE p

ThensAfterStop(p) ==
  IF sessionPromiseRef # Null /\ p[sessionPromiseRef] = "connecting"
  THEN [thens EXCEPT ![sessionPromiseRef] = @ \cup {"close"}]
  ELSE thens

\* streamRef.current?.getTracks().forEach(track => track.stop())
StopTracks == IF streamRef # Null
              THEN [stopCalls EXCEPT ![streamRef] = @ + 1]
              ELSE stopCalls

\* inputAudioContextRef.current?.close()
CloseInput == IF inputAudioContextRef # Null
              THEN [closeIn EXCEPT ![inputAudioContextRef] = @ + 1]
              ELSE closeIn

\* audioContextRef.current?.close()
CloseOutput == IF audioContextRef # Null
               THEN [closeOut EXCEPT ![audioContextRef] = @ + 1]
               ELSE closeOut

\* the body of stopSession, applied after the caller changed pc to p
StopSession(p) ==
  /\ pc' = PcAfterStop(p)
  /\ thens' = ThensAfterStop(p)
  /\ stopCalls' = StopTracks
  /\ closeIn' = CloseInput
  /\ closeOut' = CloseOutput
  /\ isActive' = FALSE
  /\ status' = ReadyStatus
  /\ sessionPromiseRef' = Null

\* click on DISCONNECT (button shown while isActive)
UserStop ==
  /\ mounted /\ isActive
  /\ StopSession(pc)
  /\ UNCHANGED << mounted, error, audioContextRef, inputAudioContextRef,
                  streamRef, opened, clock, audioVars, sent >>
  /\ UNCHANGED << studioVars, chatVars >>
  /\ UNCHANGED frameVars

\* the cleanup of useEffect: the view is left
Unmount ==
  /\ mounted
  /\ mounted' = FALSE
  /\ StopSession(pc)
  /\ UNCHANGED << error, audioContextRef, inputAudioContextRef, streamRef,
                  opened, clock, audioVars, sent >>
  /\ UNCHANGED << studioVars, chatVars >>
  /\ UNCHANGED frameVars

\* onerror: the transport of attempt a fails, while connecting or open
OnError(a) ==
  /\ pc[a] \in {"connecting", "open"}
  /\ error' = ConnectionError
  /\ StopSession([pc EXCEPT ![a] = "errored"])
  /\ UNCHANGED << mounted, audioContextRef, inputAudioContextRef, streamRef,
                  opened, clock, audioVars, sent >>
  /\ UNCHANGED << studioVars, chatVars >>
  /\ UNCHANGED frameVars

\* onclose: the socket of attempt a closed (remote close, or after close())
OnClose(a) ==
  /\ pc[a] \in {"open", "closing", "errored"}
  /\ status' = DisconnectedStatus
  /\ isActive' = FALSE
  /\ pc' = [pc EXCEPT ![a] = "closed"]
  /\ thens' = [thens EXCEPT ![a] = {}]
  /\ queued' = [queued EXCEPT ![a] = << >>]
  /\ UNCHANGED << mounted, error, refVars, opened, resVars, clock, audioVars,
                  sent, produced, sentLog >>
  /\ UNCHANGED << studioVars, chatVars >>

\* ------------------------------------------------------------ output clock
\* real time passes: currentTime of every open output context advances
Tick ==
  /\ \E a \in Attempts : OutCtxOpen(a)
  /\ \A a \in Attempts : OutCtxOpen(a) => clock[a] < MaxTime
  /\ clock' = [a \in Attempts |->
                 IF OutCtxOpen(a) THEN clock[a] + 1 ELSE clock[a]]
  /\ UNCHANGED << uiVars, refVars, pc, opened, thens, resVars, audioVars,
                  sent >>
  /\ UNCHANGED << studioVars, chatVars >>
  /\ UNCHANGED frameVars

\* ---------------------------------------------------------------- onmessage
\* the messages the server sends: an audio part, the interrupted flag, or both
Messages ==
  [audio : {TRUE}, dur : Durations, interrupted : BOOLEAN]
    \cup {[audio |-> FALSE, dur |-> 0, interrupted |-> TRUE]}

\* mutant of ClampCursor: the cursor is always moved to the clock
ClampCursorToNow(cursor, now) == now

\* Math.max(nextStartTimeRef.current, ctx.currentTime)
ClampCursor(cursor, now) == Max(cursor, now)

\* mutant of AdvanceCursor: the cursor advances by one tick, not by the duration
AdvanceCursorByOne(cursor, dur) == cursor + 1

\* nextStartTimeRef.current += audioBuffer.duration
AdvanceCursor(cursor, dur) == cursor + dur

\* mutant of InterruptCursor: the interruption leaves the cursor where it is
InterruptCursorKeep(cursor, now) == cursor

\* nextStartTimeRef.current = audioContextRef.current.currentTime
InterruptCursor(cursor, now) == now

\* mutant of ClearSources: the set is left as it is
ClearSourcesKeep(srcs) == srcs

\* sourcesRef.current.clear()
ClearSources(srcs) == {}

\* mutant of TrackSource: the started source is not added
TrackSourceSkip(srcs, c) == srcs

\* sourcesRef.current.add(source)
TrackSource(srcs, c) == srcs \cup {c}

\* sourcesRef.current.forEach(s => s.stop())
StopSources(st, srcs) ==
  [c \in 1..MaxChunks |-> IF c \in srcs THEN "stopped" ELSE st[c]]

\* decodeAudioData(decode(base64Audio), ctx, 24000, 1): the decoded buffer,
\* of which the handler uses the duration
decodeAudioData(m) == m.dur

\* onmessage up to `await decodeAudioData` (or the whole handler when the
\* message has no audio part)
OnMessage(a, m) ==
  /\ pc[a] \in {"open", "closing"}
  /\ IF m.audio /\ audioContextRef # Null
     THEN /\ arrived < MaxChunks
          /\ arrived' = arrived + 1
          /\ nextStartTimeRef' =
               ClampCursor(nextStartTimeRef, clock[audioContextRef])
          /\ gap' = IF nextStartTimeRef' > nextStartTimeRef /\ gap = "none"
                    THEN "clamp" ELSE gap
          /\ decoding' = Append(decoding,
                                [id |-> arrived + 1, ctx |-> audioContextRef,
                                 dur |-> decodeAudioData(m),
                                 interrupted |-> m.interrupted,
                                 seen |-> nIntr])
          /\ UNCHANGED << sourcesRef, schedule, srcState, nIntr >>
     ELSE /\ m.interrupted
          /\ nIntr < MaxIntr
          /\ nIntr' = nIntr + 1
          /\ srcState' = StopSources(srcState, sourcesRef)
          /\ sourcesRef' = ClearSources(sourcesRef)
          /\ nextStartTimeRef' =
               IF audioContextRef # Null
               THEN InterruptCursor(nextStartTimeRef, clock[audioContextRef])
               ELSE nextStartTimeRef
          /\ gap' = "reset"
          /\ UNCHANGED << decoding, schedule, arrived >>
  /\ UNCHANGED << uiVars, refVars, pc, opened, thens, resVars, clock, sent >>
  /\ UNCHANGED << studioVars, chatVars >>
  /\ UNCHANGED frameVars

\* which suspended handler resumes next: the awaits resolve in call order
\* ("inbound messages are processed strictly in arrival order")
NextDecoded(q) == 1

\* q without its i-th element
RemoveAt(q, i) == [j \in 1..(Len(q) - 1) |-> IF j < i THEN q[j] ELSE q[j + 1]]

\* onmessage after `await decodeAudioData`: the source is created, started
\* and tracked, then the interrupted branch runs
DecodeDone ==
  /\ decoding # << >>
  /\ LET i       == NextDecoded(decoding)
         d       == decoding[i]
         started == [srcState EXCEPT ![d.id] = "started"]
         tracked == TrackSource(sourcesRef, d.id)
         cursor  == AdvanceCursor(nextStartTimeRef, d.dur)
     IN /\ decoding' = RemoveAt(decoding, i)
        /\ schedule' = Append(schedule,
                              [id |-> d.id, ctx |-> d.ctx,
                               start |-> nextStartTimeRef,
                               dur |-> d.dur, gap |-> gap])
        /\ IF d.interrupted
           THEN /\ srcState' = StopSources(started, tracked)
                /\ sourcesRef' = ClearSources(tracked)
                /\ nextStartTimeRef' =
                     IF audioContextRef # Null
                     THEN InterruptCursor(cursor, clock[audioContextRef])
                     ELSE cursor
                /\ gap' = "reset"
           ELSE /\ srcState' = started
                /\ sourcesRef' = tracked
                /\ nextStartTimeRef' = cursor
                /\ gap' = "none"
  /\ UNCHANGED << uiVars, refVars, pc, opened, thens, resVars, clock, sent,
                  arrived, nIntr >>
  /\ UNCHANGED << studioVars, chatVars >>
  /\ UNCHANGED frameVars

\* the schedule entry of chunk c
Entry(c) == CHOOSE i \in 1..Len(schedule) : schedule[i].id = c

\* source.onended: the source played to its end, or was stopped
OnEnded(c) ==
  /\ \/ srcState[c] = "stopped"
     \/ /\ srcState[c] = "started"
        /\ OutCtxOpen(schedule[Entry(c)].ctx)
        /\ clock[schedule[Entry(c)].ctx]
             >= schedule[Entry(c)].start + schedule[Entry(c)].dur
  /\ srcState' = [srcState EXCEPT ![c] = IF @ = "started" THEN "ended" ELSE @]
  /\ sourcesRef' = sourcesRef \ {c}
  /\ UNCHANGED << uiVars, refVars, pc, opened, thens, resVars, clock, sent,
                  nextStartTimeRef, decoding, schedule, arrived, nIntr, gap >>
  /\ UNCHANGED << studioVars, chatVars >>
  /\ UNCHANGED frameVars

\* ----------------------------------------------------------- onaudioprocess
\* the scriptProcessor of attempt a delivers a captured frame
OnAudioProcess(a) ==
  /\ a \in opened
  /\ InCtxOpen(a)
  /\ produced < MaxFrames
  /\ produced' = produced + 1
  /\ IF sessionPromiseRef = Null
     THEN UNCHANGED << thens, sent, queued, sentLog >>
     ELSE IF pc[sessionPromiseRef] = "connecting"
          THEN /\ thens' = [thens EXCEPT ![sessionPromiseRef] = @ \cup {"send"}]
               /\ queued' = [queued EXCEPT ![sessionPromiseRef] =
                               Append(@, produced + 1)]
               /\ UNCHANGED << sent, sentLog >>
          ELSE IF pc[sessionPromiseRef] = "rejected"
          THEN UNCHANGED << thens, sent, queued, sentLog >>
          ELSE /\ sent' = sent \cup {pc[sessionPromiseRef]}
               /\ sentLog' = SendFrame(sentLog, [f |-> produced + 1,
                                                 to |-> sessionPromiseRef])
               /\ UNCHANGED << thens, queued >>
  /\ UNCHANGED << uiVars, refVars, pc, opened, resVars, clock, audioVars >>
  /\ UNCHANGED << studioVars, chatVars >>

\* ----------------------------------------------------------- specifications
\* The session lifecycle: start, stop, the connection callbacks and the
\* captured frames.  None of these steps reads the playback state, and no
\* playback step writes the lifecycle state.
Next ==
  \/ \E a \in Attempts : StartSession(a)
  \/ \E a \in Attempts : MicGranted(a)
  \/ \E a \in Attempts : MicDenied(a)
  \/ \E a \in Attempts : ConnectRejected(a)
  \/ \E a \in Attempts : OnOpen(a)
  \/ UserStop
  \/ Unmount
  \/ \E a \in Attempts : OnError(a)
  \/ \E a \in Attempts : OnClose(a)
  \/ \E a \in Attempts : OnAudioProcess(a)

Spec == Init /\ [][Next]_vars

\* The state after the first session opened: StartSession(1), MicGranted(1)
\* and OnOpen(1) from Init.
InitPlayback ==
  /\ mounted = TRUE
  /\ isActive = TRUE
  /\ status = ConnectedStatus
  /\ error = NoError
  /\ audioContextRef = 1
  /\ inputAudioContextRef = 1
  /\ sessionPromiseRef = 1
  /\ streamRef = 1
  /\ nextStartTimeRef = 0
  /\ sourcesRef = {}
  /\ pc = [a \in Attempts |-> IF a = 1 THEN "open" ELSE "unused"]
  /\ opened = {1}
  /\ thens = [a \in Attempts |-> {}]
  /\ stopCalls = [a \in Attempts |-> 0]
  /\ closeIn = [a \in Attempts |-> 0]
  /\ closeOut = [a \in Attempts |-> 0]
  /\ clock = [a \in Attempts |-> 0]
  /\ decoding = << >>
  /\ schedule = << >>
  /\ srcState = [c \in 1..MaxChunks |-> "none"]
  /\ sent = {}
  /\ arrived = 0
  /\ nIntr = 0
  /\ gap = "reset"
  /\ produced = 0
  /\ queued = [a \in Attempts |-> << >>]
  /\ sentLog = << >>
  /\ StudioUnmounted
  /\ InitChat

\* The inbound path of the open session: the messages of the server, their
\* decodes, the output clock and the ends of the scheduled sources.
NextPlayback ==
  \/ Tick
  \/ \E m \in Messages : OnMessage(1, m)
  \/ DecodeDone
  \/ \E c \in 1..MaxChunks : OnEnded(c)

SpecPlayback == InitPlayback /\ [][NextPlayback]_vars

\* The first session from its opening to its end: the inbound path together
\* with the three ways the session stops.
NextSession ==
  \/ UserStop
  \/ OnError(1)
  \/ OnClose(1)
  \/ Tick
  \/ \E m \in Messages : OnMessage(1, m)
  \/ DecodeDone
  \/ \E c \in 1..MaxChunks : OnEnded(c)

SpecSession == InitPlayback /\ [][NextSession]_vars

\* The two streams of the open session in a burst (no time passes): the
\* inbound chunks with their decodes, and the captured frames going out.
NextOrder ==
  \/ \E m \in Messages : OnMessage(1, m)
  \/ DecodeDone
  \/ OnAudioProcess(1)

SpecOrder == InitPlayback /\ [][NextOrder]_vars

\* -------------------------------------------------------------- MediaStudio
\* click on a tab button
SetTab(t) ==
  /\ t # tab
  /\ tab' = t
  /\ UNCHANGED << liveVars, chatVars, isLoading, mediaStatus, aistudio, op >>

\* the EXECUTE button is enabled (disabled={isLoading}); the invocation takes
\* the lowest slot that holds no running handler
Execute(i) ==
  /\ ~isLoading
  /\ op[i].at \in Settled
  /\ \A j \in 1..(i - 1) : op[j].at \notin Settled

\* handleGenerateImage up to its first await; the awaits inside the try
\* (ensureVeoKey, generateContent) write no state between them and are one
\* position
HandleGenerateImage(i) ==
  /\ Execute(i) /\ tab = "GENERATE_IMG"
  /\ isLoading' = TRUE
  /\ mediaStatus' = GeneratingImage
  /\ op' = [op EXCEPT ![i] = Running("image", "content", "none", FALSE)]
  /\ UNCHANGED << liveVars, chatVars, tab, aistudio >>

\* handleEditImage up to its first await (blobToBase64, generateContent)
HandleEditImage(i, selectedFile) ==
  /\ Execute(i) /\ tab = "EDIT_IMG"
  /\ IF selectedFile
     THEN /\ isLoading' = TRUE
          /\ mediaStatus' = EditingImage
          /\ op' = [op EXCEPT ![i] = Running("edit", "content", "none", FALSE)]
     ELSE /\ op' = [op EXCEPT ![i] = Returned("none")]
          /\ UNCHANGED << isLoading, mediaStatus >>
  /\ UNCHANGED << liveVars, chatVars, tab, aistudio >>

\* handleVeo up to `await ensureVeoKey()`: nothing is written before it.
\* Without window.aistudio ensureVeoKey awaits nothing: handleVeo goes on in
\* the same task, before any other event, up to `await generateVideos`.
HandleVeo(i, isAnimation) ==
  /\ Execute(i)
  /\ tab = (IF isAnimation THEN "ANIMATE_IMG" ELSE "VEO_VIDEO")
  /\ IF aistudio
     THEN /\ op' = [op EXCEPT ![i] =
                      Running(IF isAnimation THEN "animate" ELSE "veo", "key",
                              "none", FALSE)]
          /\ UNCHANGED << isLoading, mediaStatus >>
     ELSE /\ op' = [op EXCEPT ![i] =
                      Running(IF isAnimation THEN "animate" ELSE "veo",
                              "submit", "none", FALSE)]
          /\ isLoading' = TRUE
          /\ mediaStatus' = (IF isAnimation THEN Animating ELSE GeneratingVideo)
  /\ UNCHANGED << liveVars, chatVars, tab, aistudio >>

\* ensureVeoKey (hasSelectedApiKey, openSelectKey) resolved: handleVeo runs to `await generateVideos` (with the
\* blobToBase64 of the animation before it, inside the same try)
KeyDone(i) ==
  /\ op[i].at = "key"
  /\ isLoading' = TRUE
  /\ mediaStatus' = (IF op[i].kind = "animate" THEN Animating
                                               ELSE GeneratingVideo)
  /\ op' = [op EXCEPT ![i].at = "submit"]
  /\ UNCHANGED << liveVars, chatVars, tab, aistudio >>

\* ensureVeoKey rejected (a call on window.aistudio failed): the await is
\* outside the try, the rejection leaves handleVeo
KeyFailed(i) ==
  /\ op[i].at = "key"
  /\ aistudio
  /\ op' = [op EXCEPT ![i] = Threw("key")]
  /\ UNCHANGED << liveVars, chatVars, tab, isLoading, mediaStatus, aistudio >>

\* mutant of LoopContinues: the loop never looks at operation.done
LoopContinuesAlways(done) == TRUE

\* while (!operation.done)
LoopContinues(done) == ~done

\* handleVeo from the loop test on, with operation.done = done: back to the
\* timer, or past the loop to the download (a uri) or to the failure status
AfterOperation(i, done, uri, shown) ==
  IF LoopContinues(done)
  THEN /\ op' = [op EXCEPT ![i].at = "sleep", ![i].done = done]
       /\ mediaStatus' = shown
       /\ isLoading' = isLoading
  ELSE IF uri
  THEN /\ op' = [op EXCEPT ![i].at = "fetch", ![i].done = done]
       /\ mediaStatus' = shown
       /\ isLoading' = isLoading
  ELSE /\ op' = [op EXCEPT ![i] = Returned("none")]
       /\ mediaStatus' = FailedVideo
       /\ isLoading' = FALSE

\* generateVideos resolved
SubmitDone(i, done, uri) ==
  /\ op[i].at = "submit"
  /\ AfterOperation(i, done, uri, mediaStatus)
  /\ UNCHANGED << liveVars, chatVars, tab, aistudio >>

\* the 5 s timer of the poll loop fired: getVideosOperation is called
SleepDone(i) ==
  /\ op[i].at = "sleep"
  /\ op' = [op EXCEPT ![i].at = "poll"]
  /\ UNCHANGED << liveVars, chatVars, tab, isLoading, mediaStatus, aistudio >>

\* getVideosOperation resolved: setStatus('Rendering... ' + state)
PollDone(i, done, uri) ==
  /\ op[i].at = "poll"
  /\ AfterOperation(i, done, uri, Rendering)
  /\ UNCHANGED << liveVars, chatVars, tab, aistudio >>

\* the download of the video resolved
FetchDone(i) ==
  /\ op[i].at = "fetch"
  /\ mediaStatus' = Complete
  /\ isLoading' = FALSE
  /\ op' = [op EXCEPT ![i] = Returned("none")]
  /\ UNCHANGED << liveVars, chatVars, tab, aistudio >>

\* generateContent resolved, with or without an image part
ContentDone(i, found) ==
  /\ op[i].at = "content"
  /\ mediaStatus' = IF found THEN mediaStatus
                    ELSE IF op[i].kind = "image" THEN NoImageGenerated
                    ELSE NoImageReturned
  /\ isLoading' = FALSE
  /\ op' = [op EXCEPT ![i] = Returned("none")]
  /\ UNCHANGED << liveVars, chatVars, tab, aistudio >>

\* the exceptions of the awaited calls: the API error whose message contains
\* 'Requested entity was not found', or any other; the download and the
\* file read throw no API error
Errors(at) == IF at = "fetch" THEN {"other"} ELSE {"notFound", "other"}

\* an awaited call inside the try rejected with e: catch, then finally
CallFailed(i, e) ==
  /\ op[i].at \in {"content", "submit", "poll", "fetch"}
  /\ e \in Errors(op[i].at)
  /\ IF op[i].kind \in {"veo", "animate"} /\ e = "notFound"
     THEN IF aistudio
          THEN /\ op' = [op EXCEPT ![i].at = "rekey", ![i].err = e]
               /\ UNCHANGED << isLoading, mediaStatus >>
          ELSE /\ op' = [op EXCEPT ![i] = Returned(e)]
               /\ isLoading' = FALSE
               /\ mediaStatus' = mediaStatus
     ELSE /\ op' = [op EXCEPT ![i] = Returned(e)]
          /\ isLoading' = FALSE
          /\ mediaStatus' = ErrorStatus
  /\ UNCHANGED << liveVars, chatVars, tab, aistudio >>

\* openSelectKey inside the catch resolved
RekeyDone(i) ==
  /\ op[i].at = "rekey"
  /\ mediaStatus' = KeyReset
  /\ isLoading' = FALSE
  /\ op' = [op EXCEPT ![i] = Returned(op[i].err)]
  /\ UNCHANGED << liveVars, chatVars, tab, aistudio >>

\* openSelectKey inside the catch rejected: finally runs, the rejection
\* leaves handleVeo
RekeyFailed(i) ==
  /\ op[i].at = "rekey"
  /\ isLoading' = FALSE
  /\ op' = [op EXCEPT ![i] = Threw(op[i].err)]
  /\ UNCHANGED << liveVars, chatVars, tab, mediaStatus, aistudio >>

\* MediaStudio has just been mounted; window.aistudio exists or not
InitStudio ==
  /\ InitLive
  /\ InitChat
  /\ tab = "GENERATE_IMG"
  /\ isLoading = FALSE
  /\ mediaStatus = NoStatus
  /\ aistudio \in BOOLEAN
  /\ op = [i \in Ops |-> Free]

\* a handler resumes from an await
Resume(i) ==
  \/ KeyDone(i)
  \/ KeyFailed(i)
  \/ \E done, uri \in BOOLEAN : SubmitDone(i, done, uri)
  \/ SleepDone(i)
  \/ \E done, uri \in BOOLEAN : PollDone(i, done, uri)
  \/ FetchDone(i)
  \/ \E found \in BOOLEAN : ContentDone(i, found)
  \/ \E e \in {"notFound", "other"} : CallFailed(i, e)
  \/ RekeyDone(i)
  \/ RekeyFailed(i)

NextStudio ==
  \/ \E t \in Tabs : SetTab(t)
  \/ \E i \in Ops : HandleGenerateImage(i)
  \/ \E i \in Ops, f \in BOOLEAN : HandleEditImage(i, f)
  \/ \E i \in Ops, isAnimation \in BOOLEAN : HandleVeo(i, isAnimation)
  \/ \E i \in Ops : Resume(i)

SpecStudio == InitStudio /\ [][NextStudio]_vars

\* MediaStudio on one tab: no handler reads tab after the click that started
\* it, so the tab switches are left out of the runs that are checked for
\* termination
InitOnTab ==
  /\ InitLive
  /\ InitChat
  /\ tab \in Tabs
  /\ isLoading = FALSE
  /\ mediaStatus = NoStatus
  /\ aistudio \in BOOLEAN
  /\ op = [i \in Ops |-> Free]

NextOnTab ==
  \/ \E i \in Ops : HandleGenerateImage(i)
  \/ \E i \in Ops, f \in BOOLEAN : HandleEditImage(i, f)
  \/ \E i \in Ops, isAnimation \in BOOLEAN : HandleVeo(i, isAnimation)
  \/ \E i \in Ops : Resume(i)

\* Every timer fires and every awaited call settles.
FairStudio ==
  InitOnTab /\ [][NextOnTab]_vars /\ \A i \in Ops : WF_vars(Resume(i))

\* ================================================================== claims

\* C1: stopping a session from Active (user stop, remote close or transport
\* error) ends in Idle with the microphone of the session released and its
\* two audio contexts closed.
C1_StopFromActiveReleases ==
  [][\A a \in Attempts :
       (isActive /\ pc[a] = "open" /\ pc'[a] \in {"closing", "errored", "closed"})
         => /\ ~isActive'
            /\ ~(MicLive(a))'
            /\ ~(InCtxOpen(a))'
            /\ ~(OutCtxOpen(a))']_vars

\* C2: no stream receives a second track.stop() and no audio context a
\* second close(), whatever the sequence of stop, error, close and unmount.
C2_ReleasedOnce ==
  \A a \in Attempts :
    stopCalls[a] <= 1 /\ closeIn[a] <= 1 /\ closeOut[a] <= 1

\* C3: at most one microphone stream, one pair of audio contexts and one
\* remote connection is live at any time.
C3_OneSession ==
  /\ Cardinality({a \in Attempts : MicLive(a)}) <= 1
  /\ Cardinality({a \in Attempts : InCtxOpen(a) \/ OutCtxOpen(a)}) <= 1
  /\ Cardinality({a \in Attempts : ConnLive(a)}) <= 1

\* the step handles a message that has both an audio part and interrupted
InterruptedDecode ==
  /\ Len(schedule') = Len(schedule) + 1
  /\ \E i \in 1..Len(decoding) :
       /\ decoding[i].id = schedule'[Len(schedule')].id
       /\ decoding[i].interrupted

\* the step processes an interruption signal
InterruptionStep == nIntr' # nIntr \/ InterruptedDecode

\* C4: right after an interruption is processed the scheduled set is empty,
\* every source that was in it (and the one the same message scheduled) has
\* been stopped, and the cursor equals the current time of the output clock.
C4_Interruption ==
  [][InterruptionStep =>
       /\ sourcesRef' = {}
       /\ \A c \in sourcesRef : srcState'[c] = "stopped"
       /\ InterruptedDecode => srcState'[schedule'[Len(schedule')].id] = "stopped"
       /\ nextStartTimeRef' = clock'[audioContextRef']]_vars

\* C4 witness: an interruption has stopped two scheduled sources at once
C4_Witness ==
  /\ Cardinality({c \in 1..MaxChunks : srcState[c] = "stopped"}) >= 2
  /\ sourcesRef = {}
  /\ gap = "reset"
  /\ nextStartTimeRef = clock[audioContextRef]
  /\ clock[audioContextRef] > 0

\* C5 as stated: without an interruption between them, consecutive starts
\* are exactly back-to-back, start(n+1) = start(n) + duration(n).
C5_ExactlyBackToBack ==
  \A i \in 1..(Len(schedule) - 1) :
    schedule[i + 1].gap # "reset"
      => schedule[i + 1].start = schedule[i].start + schedule[i].dur

\* C5 amended: without a cursor reset between them, consecutive starts never
\* overlap, start(n+1) >= start(n) + duration(n), and they are exactly
\* back-to-back unless a chunk arrived late (clock past the cursor) in between.
C5_BackToBackUnlessLate ==
  \A i \in 1..(Len(schedule) - 1) :
    schedule[i + 1].gap # "reset"
      => /\ schedule[i + 1].start >= schedule[i].start + schedule[i].dur
         /\ schedule[i + 1].gap = "none"
              => schedule[i + 1].start = schedule[i].start + schedule[i].dur

\* C5 witness: three chunks, the second late, the third back-to-back
C5_Witness ==
  /\ Len(schedule) = 3
  /\ schedule[2].gap = "clamp"
  /\ schedule[2].start > schedule[1].start + schedule[1].dur
  /\ schedule[3].gap = "none"
  /\ schedule[3].start = schedule[2].start + schedule[2].dur

RECURSIVE SumDur(_, _)
\* the sum of the durations of the schedule entries i..j
SumDur(i, j) == IF i > j THEN 0 ELSE schedule[i].dur + SumDur(i + 1, j)

\* C6: chunks are started in arrival order, and when no chunk is handled late
\* chunk j starts at the start of chunk i plus the durations of the chunks
\* i..j-1.
C6_CumulativeStarts ==
  \A i \in 1..Len(schedule) : \A j \in (i + 1)..Len(schedule) :
    /\ schedule[i].id < schedule[j].id
    /\ (\A k \in (i + 1)..j : schedule[k].gap = "none")
         => schedule[j].start = schedule[i].start + SumDur(i, j - 1)

\* C6 witness: durations 2, 1, 2 scheduled at t0, t0+2 and t0+3, with t0 > 0
C6_Witness ==
  /\ Len(schedule) = 3
  /\ schedule[1].dur = 2 /\ schedule[2].dur = 1 /\ schedule[3].dur = 2
  /\ schedule[2].gap = "none" /\ schedule[3].gap = "none"
  /\ schedule[1].start > 0
  /\ schedule[2].start = schedule[1].start + 2
  /\ schedule[3].start = schedule[1].start + 3

\* C7: no source is started in the past: the time passed to source.start is
\* at least the output clock at the moment of the call.
C7_NeverInThePast ==
  [][Len(schedule') > Len(schedule) =>
       \A i \in 1..Len(decoding) :
         decoding[i].id = schedule'[Len(schedule')].id
           => schedule'[Len(schedule')].start >= clock[decoding[i].ctx]]_vars

\* C8: when getUserMedia rejects, an error is reported, isActive is false, no
\* connection was opened and the status no longer shows the start in progress.
C8_MicDeniedIdle ==
  [][\A a \in Attempts :
       (pc[a] = "mic" /\ pc'[a] = "denied")
         => /\ error' # NoError
            /\ ~isActive'
            /\ ~(HasConnection(a))'
            /\ status' # InitializingStatus]_vars

\* C9: at the point an error is reported no microphone stream and no audio
\* context is open.
C9_ErrorAfterTeardown ==
  [][(error' # NoError /\ error' # error)
       => \A a \in Attempts :
            ~(MicLive(a))' /\ ~(InCtxOpen(a))' /\ ~(OutCtxOpen(a))']_vars

\* C10: sendRealtimeInput is called only for a frame produced while the
\* session it goes to is open.
C10_SendOnlyWhileActive == sent \subseteq {"open"}

\* stopSession has run on the session the refs point to
StopRan == audioContextRef # Null /\ closeOut[audioContextRef] > 0

\* C11: once stopSession has run, no later step starts a source or adds one
\* to the scheduled set.
C11_StopEndsScheduling ==
  [][StopRan => (schedule' = schedule /\ sourcesRef' \subseteq sourcesRef)]_vars

\* C12: the step that ends an open session (user stop, remote close, error)
\* leaves the scheduled set empty and no source still started.
C12_StopClearsSources ==
  [][\A a \in Attempts :
       (pc[a] = "open" /\ pc'[a] \in {"closing", "errored", "closed"})
         => /\ sourcesRef' = {}
            /\ \A c \in 1..MaxChunks : srcState'[c] # "started"]_vars

\* C13: within a session the cursor never decreases, except in the step that
\* processes an interruption, which sets it to the current time of the output
\* clock.
C13_CursorMonotone ==
  [][IF InterruptionStep
     THEN nextStartTimeRef' = clock'[audioContextRef']
     ELSE nextStartTimeRef' >= nextStartTimeRef]_vars

\* C13 witness: two chunks advanced the cursor and an interruption then moved
\* it back to the clock, below the end of a scheduled chunk
C13_Witness ==
  /\ gap = "reset"
  /\ Len(schedule) >= 2
  /\ nextStartTimeRef = clock[audioContextRef]
  /\ \E i \in 1..Len(schedule) :
       schedule[i].start + schedule[i].dur > nextStartTimeRef

\* C14: the step in which a Connecting attempt fails (its connect promise
\* rejects, or onerror fires before onopen) leaves the session Idle with the
\* connection error reported.
C14_ConnectFailureReported ==
  [][\A a \in Attempts :
       (pc[a] = "connecting" /\ pc'[a] \in {"errored", "rejected"})
         => /\ ~isActive'
            /\ status' = ReadyStatus
            /\ error' = ConnectionError]_vars

\* the status strings that tell the user a call failed
FailureStatuses == {ErrorStatus, KeyReset}

\* C15: the step in which a handler ends after one of its remote calls failed
\* ends it by returning (nothing escapes uncaught), with the loading flag
\* cleared and a status that reports the failure.
C15_FailuresReported ==
  [][\A i \in Ops :
       (/\ op[i].at \notin Settled
        /\ op'[i].at \in Settled
        /\ op'[i].err \in {"notFound", "other"})
         => /\ op'[i].at = "returned"
            /\ ~isLoading'
            /\ mediaStatus' \in FailureStatuses]_vars

\* the final values of status after a video job
FinalStatuses == {Complete, FailedVideo, ErrorStatus}

\* C16: the poll loop is left only from a poll, when the poll failed or the
\* operation it returned is done (the timer never ends the loop); the step
\* that ends the handler after a done operation clears isLoading and sets a
\* final status; and once an operation is done the handler eventually ends,
\* with isLoading false and a final status.
C16_PollLoop ==
  /\ [][\A i \in Ops :
          /\ (op[i].at \in {"sleep", "poll"} /\ op'[i].at \notin {"sleep", "poll"})
               => /\ op[i].at = "poll"
                  /\ \/ op'[i].err # "none"
                     \/ op'[i].done
                     \/ mediaStatus' = FailedVideo
          /\ (op[i].at = "sleep" /\ op'[i] # op[i]) => op'[i].at = "poll"
          /\ (op[i].done /\ op'[i].at \in Settled)
               => (op'[i].at = "returned" /\ ~isLoading'
                   /\ mediaStatus' \in FinalStatuses)]_vars
  /\ \A i \in Ops :
       op[i].done ~> (/\ op[i].at = "returned"
                      /\ ~isLoading
                      /\ mediaStatus \in FinalStatuses)

\* C16 witness: a handler left the poll loop with a done operation (the
\* status is the one the poll wrote) and awaits the download
C16_Witness ==
  \E i \in Ops : op[i].at = "fetch" /\ op[i].done /\ mediaStatus = Rendering

\* C17: a chunk is started, and added to the scheduled set, only if no
\* interruption was processed since it arrived.
C17_BargeIn ==
  [][Len(schedule') > Len(schedule) =>
       \A i \in 1..Len(decoding) :
         decoding[i].id = schedule'[Len(schedule')].id
           => decoding[i].seen = nIntr]_vars

\* the frames of the log are in production order
InProductionOrder(log) ==
  \A i, j \in 1..Len(log) : i < j => log[i].f < log[j].f

C19_ExactlyTheLiveSources ==
  sourcesRef = {c \in 1..MaxChunks : srcState[c] = "started"}

\* C19 witness: one source was stopped by an interruption, one played to its
\* end and was removed, and one is playing and in the set
C19_Witness ==
  /\ \E c \in 1..MaxChunks : srcState[c] = "stopped"
  /\ \E c \in 1..MaxChunks : srcState[c] = "ended" /\ c \notin sourcesRef
  /\ \E c \in sourcesRef : srcState[c] = "started"

\* C20: the step that unmounts the view while a session is Active closes the
\* open session, stops the tracks of its microphone stream and closes its two
\* audio contexts, and leaves the state a user stop leaves.
C20_UnmountTearsDown ==
  [][(mounted /\ ~mounted' /\ isActive) =>
       /\ ~isActive'
       /\ status' = ReadyStatus
       /\ sessionPromiseRef' = Null
       /\ \A a \in Attempts :
            pc[a] = "open"
              => /\ pc'[a] = "closing"
                 /\ ~(MicLive(a))'
                 /\ ~(InCtxOpen(a))'
                 /\ ~(OutCtxOpen(a))']_vars

\* no callback of a start attempt is pending: no getUserMedia or connect is
\* awaited and no socket is closing
Quiescent ==
  \A a \in Attempts :
    pc[a] \notin {"mic", "connecting", "closing"} /\ thens[a] = {}

\* C21: once the view is unmounted and every pending callback has run, no
\* start attempt has a live microphone stream, an open audio context or a
\* live connection.
C21_NothingLiveAfterUnmount ==
  (~mounted /\ Quiescent) =>
    \A a \in Attempts :
      ~MicLive(a) /\ ~InCtxOpen(a) /\ ~OutCtxOpen(a) /\ ~ConnLive(a)

\* the handler invocations that have started and not finished
InFlight == {i \in Ops : op[i].at \notin Settled}

\* C22: at most one MediaStudio handler is in flight.
C22_OneInFlight == Cardinality(InFlight) <= 1

\* ================================================================ ChatView
\* onChange of the text box
SetInput(v) ==
  /\ v # input
  /\ input' = v
  /\ UNCHANGED << liveVars, studioVars, messages, chatIsLoading, selectedMode,
                  useThinking, useSearch, useMaps, send >>

\* onChange of the model select: the chosen model, all three toggles off
SelectModel(m) ==
  /\ m # selectedMode
  /\ selectedMode' = m
  /\ useThinking' = FALSE
  /\ useSearch' = FALSE
  /\ useMaps' = FALSE
  /\ UNCHANGED << liveVars, studioVars, messages, input, chatIsLoading, send >>

\* onClick of the Thinking toggle
ToggleThinking ==
  /\ useThinking' = ~useThinking
  /\ useSearch' = FALSE
  /\ useMaps' = FALSE
  /\ UNCHANGED << liveVars, studioVars, messages, input, chatIsLoading,
                  selectedMode, send >>

ToggleSearchOnly ==
  /\ useSearch' = ~useSearch
  /\ UNCHANGED << liveVars, studioVars, messages, input, chatIsLoading,
                  selectedMode, send, useThinking, useMaps >>

\* onClick of the Search toggle
ToggleSearch ==
  /\ useSearch' = ~useSearch
  /\ useThinking' = FALSE
  /\ useMaps' = FALSE
  /\ UNCHANGED << liveVars, studioVars, messages, input, chatIsLoading,
                  selectedMode, send >>

\* onClick of the Maps toggle
ToggleMaps ==
  /\ useMaps' = ~useMaps
  /\ useThinking' = FALSE
  /\ useSearch' = FALSE
  /\ UNCHANGED << liveVars, studioVars, messages, input, chatIsLoading,
                  selectedMode, send >>

\* the model handleSend asks: the toggles override the select
ModelToUse ==
  IF useThinking THEN PRO
  ELSE IF useSearch THEN FLASH
  ELSE IF useMaps THEN MAPS_MODEL
  ELSE selectedMode

\* the tool handleSend passes
Tools ==
  IF useThinking THEN "none"
  ELSE IF useSearch THEN "googleSearch"
  ELSE IF useMaps THEN "googleMaps"
  ELSE "none"

\* handleSend (Enter or the send button) up to its first await: the position
\* request when Maps is on and the browser has geolocation, else
\* generateContent
HandleSend(geolocation) ==
  /\ ~(Trim(input) = "" \/ chatIsLoading)
  /\ Len(messages) < 2 * MaxSends
  /\ messages' = Append(messages,
                        [role |-> "user", text |-> input, isThinking |-> FALSE])
  /\ input' = ""
  /\ chatIsLoading' = TRUE
  /\ send' = [at |-> IF useMaps /\ geolocation THEN "position" ELSE "generate",
              model |-> ModelToUse, tools |-> Tools,
              isThinking |-> useThinking]
  /\ UNCHANGED << liveVars, studioVars, selectedMode, useThinking, useSearch,
                  useMaps >>

\* getCurrentPosition called back (with a position or with an error): the
\* handler goes on to `await generateContent`
PositionDone ==
  /\ send.at = "position"
  /\ send' = [send EXCEPT !.at = "generate"]
  /\ UNCHANGED << liveVars, studioVars, messages, input, chatIsLoading,
                  selectedMode, useThinking, useSearch, useMaps >>

\* generateContent resolved: the reply is appended, finally clears isLoading
GenerateDone ==
  /\ send.at = "generate"
  /\ messages' = Append(messages, [role |-> "model", text |-> "reply",
                                   isThinking |-> send.isThinking])
  /\ chatIsLoading' = FALSE
  /\ send' = Idle
  /\ UNCHANGED << liveVars, studioVars, input, selectedMode, useThinking,
                  useSearch, useMaps >>

\* generateContent rejected: the catch appends an error message
GenerateFailed ==
  /\ send.at = "generate"
  /\ messages' = Append(messages, [role |-> "model", text |-> "Error",
                                   isThinking |-> FALSE])
  /\ chatIsLoading' = FALSE
  /\ send' = Idle
  /\ UNCHANGED << liveVars, studioVars, input, selectedMode, useThinking,
                  useSearch, useMaps >>

NextChat ==
  \/ \E v \in Inputs : SetInput(v)
  \/ \E m \in SelectModes : SelectModel(m)
  \/ ToggleThinking
  \/ ToggleSearch
  \/ ToggleMaps
  \/ \E geolocation \in BOOLEAN : HandleSend(geolocation)
  \/ PositionDone
  \/ GenerateDone
  \/ GenerateFailed

SpecChat == Init /\ [][NextChat]_vars

\* the toggles that are on
TogglesOn ==
  {t \in {"Thinking", "Search", "Maps"} :
     \/ t = "Thinking" /\ useThinking
     \/ t = "Search" /\ useSearch
     \/ t = "Maps" /\ useMaps}

\* C23: at most one of the Thinking, Search and Maps toggles is on in every
\* state; a click on one toggle leaves the other two off, and a change of the
\* selected model leaves all three off.
C23_ExclusiveToggles ==
  /\ [](Cardinality(TogglesOn) <= 1)
  /\ [][ /\ ToggleThinking => (~useSearch' /\ ~useMaps')
         /\ ToggleSearch => (~useThinking' /\ ~useMaps')
         /\ ToggleMaps => (~useThinking' /\ ~useSearch')
         /\ (selectedMode' # selectedMode) => (TogglesOn' = {}) ]_vars

\* a reply produced under Thinking is in the conversation and Maps is the
\* toggle that is on now: a later click moved the choice from one toggle to
\* another
C23_Witness ==
  /\ useMaps /\ ~useThinking /\ ~useSearch
  /\ \E k \in 1..Len(messages) : messages[k].isThinking

====
